---------------------------- MODULE Spec2Model ----------------------------
(***************************************************************************)
(* Humanoid robot animation: the animation manager (updateAnimation), the  *)
(* five animation functions, the robot's pose operations (resetPose,       *)
(* constrainJoint, applyConstraints) and the Bezier gait engine            *)
(* (LowerLegEngine).                                                       *)
(*                                                                         *)
(* Numbers.  The program computes in IEEE doubles; the model computes in   *)
(* decimal fixed point with four places: the integer n stands for the real *)
(* n / Fx, Fx = 10^4.  Seconds, radians, scene lengths, phases and curve   *)
(* values all use this one scale (4 s is 40000, 0.05 s is 500, the knee    *)
(* limit 2.5 rad is 25000).  Products and quotients truncate toward zero.  *)
(* Math.sin is a Taylor polynomial after reduction to the first quadrant,  *)
(* saturated at 1.  The JavaScript remainder keeps the sign of the         *)
(* dividend (JsMod), and a division by zero gives NaN, a value of its own  *)
(* that every operation propagates.                                        *)
(***************************************************************************)
EXTENDS Integers, Sequences, FiniteSets, TLC

VARIABLES
    animationTime,      \* part_002:5   elapsed time in the current animation
    currentAnimation,   \* part_002:6   index of the current animation, 0..4
    robot,              \* part_001:6   the HumanoidRobot: joint rotations, root, torso
    infoText,           \* part_002:13  textContent of the 'current-animation' element
    gaitEngine,         \* part_004:153 the LowerLegEngine, or NoEngine before construction
    call,               \* history: the last updateAnimation call
    entered,            \* history: no updateAnimation call yet since the current animation was entered
    frames,             \* history: number of updateAnimation calls (equal-delta runs), its parity (SpecLive)
    transitions,        \* history: number of mode transitions (equal-delta runs)
    eqDelta,            \* the frame delta of an equal-delta run
    gaitCall,           \* history: the last call made on the gait engine (again: not the first getLowerLegAngles)
                        \*          (curve, point: the argument and the result of an evalCurve call)
    memo,               \* history: the first getLowerLegAngles call made on the engine
    lastOp,             \* history: the operation performed last
    poseCall            \* history: the last call made on the robot directly: its arguments,
                        \*          the robot before it, and whether it repeats the call before

vars == <<animationTime, currentAnimation, robot, infoText, gaitEngine, call,
          entered, frames, transitions, eqDelta, gaitCall, memo, lastOp,
          poseCall>>

---------------------------------------------------------------------------
(* Fixed-point arithmetic *)

Fx == 10 ^ 4

NaN == 0 - 10 ^ 9

Abs(a) == IF a < 0 THEN 0 - a ELSE a

Sign(a) == IF a < 0 THEN 0 - 1 ELSE 1

Min(a, b) == IF a < b THEN a ELSE b

Max(a, b) == IF a > b THEN a ELSE b

\* Math.max / Math.min of the program: NaN if either argument is NaN
MathMax(a, b) == IF a = NaN \/ b = NaN THEN NaN ELSE Max(a, b)

MathMin(a, b) == IF a = NaN \/ b = NaN THEN NaN ELSE Min(a, b)

\* a / b truncated toward zero (b # 0)
TruncDiv(a, b) == Sign(a) * Sign(b) * (Abs(a) \div Abs(b))

\* the product of two fixed-point numbers, a * b / Fx, truncated toward zero;
\* split so that no intermediate result leaves 32 bits
FxMul(a, b) ==
    IF a = NaN \/ b = NaN THEN NaN
    ELSE Sign(a) * Sign(b) *
         ((Abs(a) \div Fx) * Abs(b) + ((Abs(a) % Fx) * Abs(b)) \div Fx)

\* the quotient of two fixed-point numbers, a / b: NaN for 0 / 0 and for NaN
FxDiv(a, b) ==
    IF a = NaN \/ b = NaN \/ b = 0 THEN NaN
    ELSE TruncDiv(a * Fx, b)

\* JavaScript's a % b: the sign of the dividend, NaN when b is 0
JsMod(a, b) ==
    IF a = NaN \/ b = NaN \/ b = 0 THEN NaN
    ELSE Sign(a) * (Abs(a) % Abs(b))

FxNeg(a) == IF a = NaN THEN NaN ELSE 0 - a

\* Math.PI
Pi == 31416

\* sin on [0, Pi/2]: x(1 - x^2/6 (1 - x^2/20 (1 - x^2/42 (1 - x^2/72)))),
\* the last product rounded to the nearest, so that sin(Pi/2) is 1
SinQ(x) ==
    LET x2 == FxMul(x, x)
        a4 == Fx - x2 \div 72
        a3 == Fx - FxMul(x2, a4) \div 42
        a2 == Fx - FxMul(x2, a3) \div 20
        a1 == Fx - FxMul(x2, a2) \div 6
    IN  Min(Fx, (x * a1 + Fx \div 2) \div Fx)

\* Math.sin
Sin(a) ==
    IF a = NaN THEN NaN
    ELSE LET r == a % (2 * Pi)
         IN  IF r <= Pi \div 2 THEN SinQ(r)
             ELSE IF r <= Pi THEN SinQ(Pi - r)
             ELSE IF r <= Pi + Pi \div 2 THEN 0 - SinQ(r - Pi)
             ELSE 0 - SinQ(2 * Pi - r)

---------------------------------------------------------------------------
(* The gait engine: part_004 *)

\* mutant of cubicBezier: the control points weighted in the reverse order
cubicBezierReversed(p0, p1, p2, p3, t) ==
    IF t = NaN THEN NaN
    ELSE LET oneMinusT == Fx - t
         IN  FxMul(FxMul(FxMul(oneMinusT, oneMinusT), oneMinusT), p3) +
             FxMul(FxMul(FxMul(3 * oneMinusT, oneMinusT), t), p2) +
             FxMul(FxMul(FxMul(3 * oneMinusT, t), t), p1) +
             FxMul(FxMul(FxMul(t, t), t), p0)

\* cubicBezier(p0, p1, p2, p3, t)
cubicBezier(p0, p1, p2, p3, t) ==
    IF t = NaN THEN NaN
    ELSE LET oneMinusT == Fx - t
         IN  FxMul(FxMul(FxMul(oneMinusT, oneMinusT), oneMinusT), p0) +
             FxMul(FxMul(FxMul(3 * oneMinusT, oneMinusT), t), p1) +
             FxMul(FxMul(FxMul(3 * oneMinusT, t), t), p2) +
             FxMul(FxMul(FxMul(t, t), t), p3)

Pt(px, py) == [x |-> px, y |-> py]

\* new LowerLegEngine(cycleTime): the constructor stores its argument and the
\* four curves and four amplitudes; it checks nothing
LowerLegEngine(cycleTime) ==
    [ cycleTime   |-> cycleTime,
      kneeCurve   |-> << Pt(-9000, 0), Pt(-4000, 6000), Pt(6000, 6000), Pt(9000, 0) >>,
      ankleCurve  |-> << Pt(-9000, 0), Pt(-6000, 4000), Pt(3000, 7000), Pt(9000, 0) >>,
      hipCurve    |-> << Pt(-9000, -5000), Pt(-8000, -3000), Pt(3000, 3000), Pt(9000, 5000) >>,
      heightCurve |-> << Pt(-9000, 0), Pt(-3000, -1500), Pt(3000, -1500), Pt(9000, 0) >>,
      kneeAmp     |-> 55,
      ankleAmp    |-> 25,
      hipAmp      |-> 50,
      heightAmp   |-> 800 ]

\* mutant of evalCurve: the x and y components of the result exchanged
evalCurveSwapped(curve, phase) ==
    [ x |-> cubicBezier(curve[1].y, curve[2].y, curve[3].y, curve[4].y, phase),
      y |-> cubicBezier(curve[1].x, curve[2].x, curve[3].x, curve[4].x, phase) ]

\* evalCurve(curve, phase)
evalCurve(curve, phase) ==
    [ x |-> cubicBezier(curve[1].x, curve[2].x, curve[3].x, curve[4].x, phase),
      y |-> cubicBezier(curve[1].y, curve[2].y, curve[3].y, curve[4].y, phase) ]

\* getPhase(t, offset)
getPhase(e, t, offset) ==
    LET raw == JsMod(t + offset, e.cycleTime)
    IN  FxDiv(raw, e.cycleTime)

\* mutant of HalfCycle: a third of the cycle
HalfCycleThird(e) == TruncDiv(e.cycleTime, 3)

\* this.cycleTime / 2
HalfCycle(e) == TruncDiv(e.cycleTime, 2)

\* mutant of RightPhase: the right leg offset by a quarter of a cycle
RightPhaseQuarter(e, t) == getPhase(e, t, TruncDiv(e.cycleTime, 4))

\* the right leg's phase in getLowerLegAngles: offset by half a cycle
RightPhase(e, t) == getPhase(e, t, HalfCycle(e))

\* (y * amp) * (Math.PI / 180)
ToRadians(y, amp) ==
    IF y = NaN THEN NaN ELSE TruncDiv(FxMul(y * amp, Pi), 180)

\* getLowerLegAngles(t)
getLowerLegAngles(e, t) ==
    LET phaseL  == getPhase(e, t, 0)
        phaseR  == RightPhase(e, t)
        hipL    == evalCurve(e.hipCurve, phaseL)
        kneeL   == evalCurve(e.kneeCurve, phaseL)
        ankleL  == evalCurve(e.ankleCurve, phaseL)
        hipR    == evalCurve(e.hipCurve, phaseR)
        kneeR   == evalCurve(e.kneeCurve, phaseR)
        ankleR  == evalCurve(e.ankleCurve, phaseR)
        heightL == evalCurve(e.heightCurve, phaseL)
        heightR == evalCurve(e.heightCurve, phaseR)
        bodyHeight == FxMul(IF heightL.y = NaN \/ heightR.y = NaN THEN NaN
                            ELSE TruncDiv(heightL.y + heightR.y, 2), e.heightAmp)
    IN  [ left_leg   |-> [ hip   |-> ToRadians(hipL.y, e.hipAmp),
                           knee  |-> ToRadians(kneeL.y, e.kneeAmp),
                           ankle |-> ToRadians(ankleL.y, e.ankleAmp) ],
          right_leg  |-> [ hip   |-> ToRadians(hipR.y, e.hipAmp),
                           knee  |-> ToRadians(kneeR.y, e.kneeAmp),
                           ankle |-> ToRadians(ankleR.y, e.ankleAmp) ],
          bodyHeight |-> bodyHeight ]

\* mutant of EngineAfterCall: the call keeps a running state in the engine
\* (the hip amplitude ramps up by a degree per call)
EngineAfterCallDrift(e, t) == [e EXCEPT !.hipAmp = @ + 1]

\* what a getPhase or getLowerLegAngles call leaves of the engine: neither
\* method assigns to a field of this
EngineAfterCall(e, t) == e

---------------------------------------------------------------------------
(* The robot: part_000 *)

Vec(vx, vy, vz) == [x |-> vx, y |-> vy, z |-> vz]

Zero == Vec(0, 0, 0)

\* the THREE.Group nodes of the robot that carry a rotation
Joints ==
    { "neck",
      "leftHip", "leftUpperLeg", "leftKnee", "leftLowerLeg", "leftAnkle", "leftFoot",
      "rightHip", "rightUpperLeg", "rightKnee", "rightLowerLeg", "rightAnkle", "rightFoot",
      "leftShoulder", "leftUpperArm", "leftLowerArm", "leftHand",
      "rightShoulder", "rightUpperArm", "rightLowerArm", "rightHand" }

\* mutant of jointConstraints: the knee may bend half a radian backwards
jointConstraintsKneeBothWays ==
    [ hipX      |-> [min |-> -10000, max |-> 10000],
      hipY      |-> [min |-> -3000,  max |-> 3000],
      hipZ      |-> [min |-> -3000,  max |-> 3000],
      kneeX     |-> [min |-> -5000,  max |-> 25000],
      ankleX    |-> [min |-> -5000,  max |-> 8000],
      ankleZ    |-> [min |-> -3000,  max |-> 3000],
      shoulderX |-> [min |-> -28000, max |-> 28000],
      shoulderY |-> [min |-> -10000, max |-> 10000],
      shoulderZ |-> [min |-> -15000, max |-> 15000],
      elbowX    |-> [min |-> 0,      max |-> 28000],
      neckX     |-> [min |-> -5000,  max |-> 5000],
      neckY     |-> [min |-> -12000, max |-> 12000] ]

\* this.jointConstraints
jointConstraints ==
    [ hipX      |-> [min |-> -10000, max |-> 10000],
      hipY      |-> [min |-> -3000,  max |-> 3000],
      hipZ      |-> [min |-> -3000,  max |-> 3000],
      kneeX     |-> [min |-> 0,      max |-> 25000],
      ankleX    |-> [min |-> -5000,  max |-> 8000],
      ankleZ    |-> [min |-> -3000,  max |-> 3000],
      shoulderX |-> [min |-> -28000, max |-> 28000],
      shoulderY |-> [min |-> -10000, max |-> 10000],
      shoulderZ |-> [min |-> -15000, max |-> 15000],
      elbowX    |-> [min |-> 0,      max |-> 28000],
      neckX     |-> [min |-> -5000,  max |-> 5000],
      neckY     |-> [min |-> -12000, max |-> 12000] ]

\* the torso mesh's position.y set by buildTorso
TorsoY0 == 16000

\* new HumanoidRobot(): every rotation zero, root.position.y = 0
HumanoidRobot ==
    [ rot     |-> [j \in Joints |-> Zero],
      rootPos |-> Zero,
      rootRot |-> Zero,
      torsoY  |-> TorsoY0 ]

\* mutant of Clamp: the upper limit is not applied
ClampLowerOnly(v, minMax) == MathMax(minMax.min, v)

\* mutant of Clamp: a value beyond a limit is moved half of the way to it
ClampDamped(v, minMax) ==
    IF v > minMax.max THEN minMax.max + (v - minMax.max) \div 2
    ELSE IF v < minMax.min THEN minMax.min - (minMax.min - v) \div 2
    ELSE v

\* Math.max(minMax.min, Math.min(minMax.max, v))
Clamp(v, minMax) == MathMax(minMax.min, MathMin(minMax.max, v))

\* constrainJoint(joint, axis, minMax)
constrainJoint(r, joint, axis, minMax) ==
    IF axis = "x" THEN [r EXCEPT !.rot[joint].x = Clamp(@, minMax)]
    ELSE IF axis = "y" THEN [r EXCEPT !.rot[joint].y = Clamp(@, minMax)]
    ELSE IF axis = "z" THEN [r EXCEPT !.rot[joint].z = Clamp(@, minMax)]
    ELSE r

\* the joints whose rotation resetPose sets to (0, 0, 0)
ResetJoints ==
    { "neck",
      "leftHip", "leftUpperLeg", "leftKnee", "leftLowerLeg", "leftAnkle", "leftFoot",
      "rightHip", "rightUpperLeg", "rightKnee", "rightLowerLeg", "rightAnkle", "rightFoot",
      "leftShoulder", "leftUpperArm", "leftLowerArm",
      "rightShoulder", "rightUpperArm", "rightLowerArm" }

\* resetPose()
resetPose(r) ==
    [ r EXCEPT !.rot     = [j \in Joints |-> IF j \in ResetJoints THEN Zero ELSE r.rot[j]],
               !.rootPos = Zero,
               !.rootRot = Zero ]

\* the constrainJoint calls of applyConstraints, in the order of the code
ConstraintCalls ==
    << <<"leftUpperLeg",  "x", "hipX">>,
       <<"leftUpperLeg",  "y", "hipY">>,
       <<"leftUpperLeg",  "z", "hipZ">>,
       <<"rightUpperLeg", "x", "hipX">>,
       <<"rightUpperLeg", "y", "hipY">>,
       <<"rightUpperLeg", "z", "hipZ">>,
       <<"leftKnee",      "x", "kneeX">>,
       <<"rightKnee",     "x", "kneeX">>,
       <<"leftAnkle",     "x", "ankleX">>,
       <<"leftAnkle",     "z", "ankleZ">>,
       <<"rightAnkle",    "x", "ankleX">>,
       <<"rightAnkle",    "z", "ankleZ">>,
       <<"leftUpperArm",  "x", "shoulderX">>,
       <<"leftUpperArm",  "z", "shoulderZ">>,
       <<"rightUpperArm", "x", "shoulderX">>,
       <<"rightUpperArm", "z", "shoulderZ">>,
       <<"leftLowerArm",  "x", "elbowX">>,
       <<"rightLowerArm", "x", "elbowX">>,
       <<"neck",          "x", "neckX">>,
       <<"neck",          "y", "neckY">> >>

RECURSIVE ConstrainFrom(_, _, _)
\* the calls i .. Len(calls) of a list of constrainJoint calls, one after the other
ConstrainFrom(r, calls, i) ==
    IF i > Len(calls) THEN r
    ELSE ConstrainFrom(
             constrainJoint(r, calls[i][1], calls[i][2], jointConstraints[calls[i][3]]),
             calls, i + 1)

\* applyConstraints()
applyConstraints(r) == ConstrainFrom(r, ConstraintCalls, 1)

NoPoseCall ==
    [ op |-> "none", joint |-> "none", axis |-> "none", limit |-> "none",
      mode |-> 0, t |-> 0, before |-> HumanoidRobot, again |-> FALSE ]

---------------------------------------------------------------------------
(* The animation functions: js/3-animations.js *)

\* idleAnimation(robot, t) up to its call of applyConstraints
idleWrites(r, t) ==
    LET breathe == FxMul(Sin(t * 2), 300)
    IN  [ r EXCEPT !.torsoY     = TorsoY0 + breathe,
                   !.rot.neck.x = FxMul(Sin(FxMul(t, 15000)), 500) ]

\* idleAnimation(robot, t)
idleAnimation(r, t) == applyConstraints(idleWrites(r, t))

\* mutant of walkWrites: the ankle angles are applied without the minus sign
walkWritesAnkleAsSampled(r, e, t) ==
    LET gaitTime == FxMul(t, 6000)
        gaitData == getLowerLegAngles(e, gaitTime)
    IN  [ r EXCEPT !.rot.leftUpperLeg.x  = gaitData.left_leg.hip,
                   !.rot.rightUpperLeg.x = gaitData.right_leg.hip,
                   !.rot.leftKnee.x      = gaitData.left_leg.knee,
                   !.rot.rightKnee.x     = gaitData.right_leg.knee,
                   !.rot.leftAnkle.x     = gaitData.left_leg.ankle,
                   !.rot.rightAnkle.x    = gaitData.right_leg.ankle,
                   !.rootPos.y           = gaitData.bodyHeight,
                   !.rootPos.z           = FxMul(t, 3000) ]

\* walkAnimation(robot, t) up to its call of applyConstraints
walkWrites(r, e, t) ==
    LET gaitTime == FxMul(t, 6000)
        gaitData == getLowerLegAngles(e, gaitTime)
    IN  [ r EXCEPT !.rot.leftUpperLeg.x  = gaitData.left_leg.hip,
                   !.rot.rightUpperLeg.x = gaitData.right_leg.hip,
                   !.rot.leftKnee.x      = gaitData.left_leg.knee,
                   !.rot.rightKnee.x     = gaitData.right_leg.knee,
                   !.rot.leftAnkle.x     = FxNeg(gaitData.left_leg.ankle),
                   !.rot.rightAnkle.x    = FxNeg(gaitData.right_leg.ankle),
                   !.rootPos.y           = gaitData.bodyHeight,
                   !.rootPos.z           = FxMul(t, 3000) ]

\* walkAnimation(robot, t)
walkAnimation(r, e, t) == applyConstraints(walkWrites(r, e, t))

\* mutant of runAnimation: the knee bend loses its Math.max(0, .) and the
\* function returns without calling applyConstraints
runAnimationUnclamped(r, t) ==
    LET runSpeed == 5
        step     == Sin(t * runSpeed)
        step2    == Sin(t * runSpeed + Pi)
    IN  [ r EXCEPT !.rot.leftUpperLeg.x  = FxMul(step, 8000),
                   !.rot.leftKnee.x      = FxMul(0 - step, 12000),
                   !.rot.leftAnkle.x     = FxMul(step, 5000),
                   !.rot.rightUpperLeg.x = FxMul(step2, 8000),
                   !.rot.rightKnee.x     = FxMul(0 - step2, 12000),
                   !.rot.rightAnkle.x    = FxMul(step2, 5000),
                   !.rootRot.x           = -1000,
                   !.rootPos.y           = FxMul(Abs(Sin(t * runSpeed * 2)), 1200),
                   !.rootPos.z           = FxMul(t, 12000) ]

\* runAnimation(robot, t) up to its call of applyConstraints
runWrites(r, t) ==
    LET runSpeed == 5
        step     == Sin(t * runSpeed)
        step2    == Sin(t * runSpeed + Pi)
    IN  [ r EXCEPT !.rot.leftUpperLeg.x  = FxMul(step, 8000),
                   !.rot.leftKnee.x      = MathMax(0, FxMul(0 - step, 12000)),
                   !.rot.leftAnkle.x     = FxMul(step, 5000),
                   !.rot.rightUpperLeg.x = FxMul(step2, 8000),
                   !.rot.rightKnee.x     = MathMax(0, FxMul(0 - step2, 12000)),
                   !.rot.rightAnkle.x    = FxMul(step2, 5000),
                   !.rootRot.x           = -1000,
                   !.rootPos.y           = FxMul(Abs(Sin(t * runSpeed * 2)), 1200),
                   !.rootPos.z           = FxMul(t, 12000) ]

\* runAnimation(robot, t)
runAnimation(r, t) == applyConstraints(runWrites(r, t))

\* mutant of waveWrites: the head turns by up to 1.8 rad
waveWritesWide(r, t) ==
    LET turnSpeed == 2
    IN  [ r EXCEPT !.rot.neck.y = FxMul(Sin(t * turnSpeed), 18000),
                   !.rot.neck.x = FxMul(Sin(FxMul(t * turnSpeed, 5000)), 1500) ]

\* waveAnimation(robot, t), the head turn, up to its call of applyConstraints
waveWrites(r, t) ==
    LET turnSpeed == 2
    IN  [ r EXCEPT !.rot.neck.y = FxMul(Sin(t * turnSpeed), 8000),
                   !.rot.neck.x = FxMul(Sin(FxMul(t * turnSpeed, 5000)), 1500) ]

\* waveAnimation(robot, t): the head turn
waveAnimation(r, t) == applyConstraints(waveWrites(r, t))

\* mutant of rotateBodyAnimation: the sine is used without Math.max(0, .)
rotateBodyAnimationNoFloor(r, t) ==
    LET jumpSpeed  == 2
        phase      == JsMod(t * jumpSpeed, Pi * 2)
        jumpHeight == FxMul(Sin(phase), 3000)
        kneeBend   == FxMul(Sin(phase), 5000)
    IN  applyConstraints(
            [ r EXCEPT !.rootPos.y        = jumpHeight,
                       !.rot.leftKnee.x   = kneeBend,
                       !.rot.rightKnee.x  = kneeBend,
                       !.rot.leftAnkle.x  = FxMul(0 - kneeBend, 5000),
                       !.rot.rightAnkle.x = FxMul(0 - kneeBend, 5000) ])

\* rotateBodyAnimation(robot, t), the jump, up to its call of applyConstraints
rotateBodyWrites(r, t) ==
    LET jumpSpeed  == 2
        phase      == JsMod(t * jumpSpeed, Pi * 2)
        jumpHeight == FxMul(MathMax(0, Sin(phase)), 3000)
        kneeBend   == FxMul(MathMax(0, Sin(phase)), 5000)
    IN  [ r EXCEPT !.rootPos.y        = jumpHeight,
                   !.rot.leftKnee.x   = kneeBend,
                   !.rot.rightKnee.x  = kneeBend,
                   !.rot.leftAnkle.x  = FxMul(0 - kneeBend, 5000),
                   !.rot.rightAnkle.x = FxMul(0 - kneeBend, 5000) ]

\* rotateBodyAnimation(robot, t): the jump
rotateBodyAnimation(r, t) == applyConstraints(rotateBodyWrites(r, t))

---------------------------------------------------------------------------
(* The animation manager: part_002 *)

\* const animationDuration = 4
animationDuration == 4 * Fx

\* const animationNames
animationNames == << "Idle", "Walk", "Run", "Head Turn", "Jump" >>

\* the text of the info panel before the first updateInfoPanel
NoText == "(not set)"

\* if (animationTime < 0.05): the test that guards resetPose and updateInfoPanel
AtStartOfAnimation(t) == t < 500

\* mutant of ShouldAdvance: > for >=
ShouldAdvanceStrict(t) == t > animationDuration

\* if (animationTime >= animationDuration)
ShouldAdvance(t) == t >= animationDuration

\* mutant of NextAnimation: the index is not wrapped
NextAnimationUnwrapped(c) == c + 1

\* mutant of NextAnimation: the cycle closes after Head Turn
NextAnimationMod4(c) == (c + 1) % 4

\* mutant of NextAnimation: the modulus counts the sixth case of the switch
NextAnimationMod6(c) == (c + 1) % 6

\* currentAnimation = (currentAnimation + 1) % 5
NextAnimation(c) == (c + 1) % 5

\* mutant of TimeAfterAdvance: the accumulator is brought back to the threshold
TimeAfterAdvanceHeld(t) == animationDuration

\* mutant of TimeAfterAdvance: the overshoot is carried into the next animation
TimeAfterAdvanceCarry(t) == t - animationDuration

\* animationTime = 0, on a transition
TimeAfterAdvance(t) == 0

\* the switch of updateAnimation; case 5 calls fingerCurlAnimation, which no
\* file defines, so that call throws; any other index matches no case
Dispatch(c, r, e, t) ==
    CASE c = 0 -> idleAnimation(r, t)
      [] c = 1 -> walkAnimation(r, e, t)
      [] c = 2 -> runAnimation(r, t)
      [] c = 3 -> waveAnimation(r, t)
      [] c = 4 -> rotateBodyAnimation(r, t)
      [] OTHER -> r

Throws(c) == c = 5

\* the robot as the animation of the switch has written it, when it calls
\* applyConstraints
DispatchWrites(c, r, e, t) ==
    CASE c = 0 -> idleWrites(r, t)
      [] c = 1 -> walkWrites(r, e, t)
      [] c = 2 -> runWrites(r, t)
      [] c = 3 -> waveWrites(r, t)
      [] c = 4 -> rotateBodyWrites(r, t)
      [] OTHER -> r

\* mutant of PoseAfterAdvance: the transition leaves the pose as it is
PoseAfterAdvanceKept(r) == r

\* the pose at the end of a transition: robot.resetPose()
PoseAfterAdvance(r) == resetPose(r)

NoCall ==
    [ made |-> FALSE, delta |-> 0, t0 |-> 0, mode0 |-> 0, first |-> FALSE,
      resetAtStart |-> FALSE, resetAtEnd |-> FALSE, threw |-> FALSE ]

\* updateAnimation(robot, deltaTime)
updateAnimation(deltaTime) ==
    LET t       == animationTime + deltaTime
        atStart == AtStartOfAnimation(t)
        r1      == IF atStart THEN resetPose(robot) ELSE robot
        text1   == IF atStart THEN animationNames[currentAnimation + 1] ELSE infoText
        threw   == Throws(currentAnimation)
        r2      == Dispatch(currentAnimation, r1, gaitEngine, t)
        advance == ~threw /\ ShouldAdvance(t)
    IN  /\ animationTime' = IF advance THEN TimeAfterAdvance(t) ELSE t
        /\ currentAnimation' = IF advance THEN NextAnimation(currentAnimation)
                               ELSE currentAnimation
        /\ robot' = IF advance THEN PoseAfterAdvance(r2) ELSE r2
        /\ infoText' = text1
        /\ entered' = advance
        /\ call' = [ made |-> TRUE, delta |-> deltaTime, t0 |-> animationTime,
                     mode0 |-> currentAnimation, first |-> entered,
                     resetAtStart |-> atStart, resetAtEnd |-> advance,
                     threw |-> threw ]
        /\ lastOp' = "updateAnimation"

---------------------------------------------------------------------------
(* Spec: the running program.  animate() calls updateAnimation once per     *)
(* frame with the clock's delta, which is never negative.                   *)

\* frame deltas: none (the only one that stays inside the 0.05 s start
\* window), 0.25 s, 1 s and 4.5 s (longer than a whole animation)
Deltas == {0, 2500, 10000, 45000}

NoEngine == [cycleTime |-> 1, none |-> TRUE]

NoSample ==
    [ left_leg   |-> [hip |-> 0, knee |-> 0, ankle |-> 0],
      right_leg  |-> [hip |-> 0, knee |-> 0, ankle |-> 0],
      bodyHeight |-> 0 ]

NoGaitCall ==
    [ op |-> "none", engine |-> NoEngine, t |-> 0, offset |-> 0, phase |-> 0,
      phaseR |-> 0, sample |-> NoSample, again |-> FALSE,
      curve |-> << >>, point |-> Pt(0, 0) ]

Init ==
    /\ animationTime = 0
    /\ currentAnimation = 0
    /\ robot = HumanoidRobot
    /\ infoText = NoText
    /\ gaitEngine = LowerLegEngine(1 * Fx)
    /\ call = NoCall
    /\ entered = TRUE
    /\ frames = 0
    /\ transitions = 0
    /\ eqDelta = 0
    /\ gaitCall = NoGaitCall
    /\ memo = NoGaitCall
    /\ lastOp = "init"
    /\ poseCall = NoPoseCall

Frame ==
    \E deltaTime \in Deltas :
        /\ updateAnimation(deltaTime)
        /\ UNCHANGED <<gaitEngine, frames, transitions, eqDelta, gaitCall, memo, poseCall>>

Next == Frame

Spec == Init /\ [][Next]_vars

---------------------------------------------------------------------------
(* SpecLive: the running program, with frames that all take time.  animate  *)
(* re-arms itself with requestAnimationFrame before anything else, so a     *)
(* next frame always comes: weak fairness on the frame.  The frame is the   *)
(* only step there is and it is always enabled; frames holds the parity of  *)
(* the number of frames, and the fairness condition is stated on the step   *)
(* that changes it, which is the frame.                                     *)

\* the frame deltas that take time: all of them are at least 0.25 s
PositiveDeltas == Deltas \ {0}

FrameLive ==
    \E deltaTime \in PositiveDeltas :
        /\ updateAnimation(deltaTime)
        /\ frames' = 1 - frames
        /\ UNCHANGED <<gaitEngine, transitions, eqDelta, gaitCall, memo, poseCall>>

NextLive == FrameLive

\* the step that animate's requestAnimationFrame keeps coming
FrameComes == frames' = 1 - frames

SpecLive == Init /\ [][NextLive]_vars /\ WF_frames(FrameComes)

---------------------------------------------------------------------------
(* SpecEqual: a fresh selector advanced by equal frame deltas.  The deltas  *)
(* are binary fractions of a second, so that the program's double          *)
(* accumulator holds the same sums as the model's, and a quarter of pi,     *)
(* which puts the jump at the phases pi/2 and 3 pi/2.                       *)

MaxFrames == 70

\* 0.0625 s, 0.125 s, 0.25 s, 0.5 s, pi/4 s, 1 s, 1.5 s, 4 s, 5 s
EqualDeltas == {625, 1250, 2500, 5000, Pi \div 4, 10000, 15000, 40000, 50000}

InitEqual ==
    /\ animationTime = 0
    /\ currentAnimation = 0
    /\ robot = HumanoidRobot
    /\ infoText = NoText
    /\ gaitEngine = LowerLegEngine(1 * Fx)
    /\ call = NoCall
    /\ entered = TRUE
    /\ frames = 0
    /\ transitions = 0
    /\ eqDelta \in EqualDeltas
    /\ gaitCall = NoGaitCall
    /\ memo = NoGaitCall
    /\ lastOp = "init"
    /\ poseCall = NoPoseCall

FrameEqual ==
    /\ frames < MaxFrames
    /\ updateAnimation(eqDelta)
    /\ frames' = frames + 1
    /\ transitions' = transitions + (IF currentAnimation' # currentAnimation THEN 1 ELSE 0)
    /\ UNCHANGED <<gaitEngine, eqDelta, gaitCall, memo, poseCall>>

NextEqual == FrameEqual

SpecEqual == InitEqual /\ [][NextEqual]_vars

---------------------------------------------------------------------------
(* SpecGait: the gait engine alone.  An engine is constructed with some     *)
(* cycle time, then getPhase and getLowerLegAngles are called with times    *)
(* on either side of zero.                                                  *)

MaxGaitStep == 6

GaitStep == Fx \div 4

GaitTimes == { k * GaitStep : k \in (0 - MaxGaitStep) .. MaxGaitStep }

\* -1 s, 0 s, 0.5 s, 1 s, 2 s
CycleTimes == {-10000, 0, 5000, 10000, 20000}

InitGait ==
    /\ animationTime = 0
    /\ currentAnimation = 0
    /\ robot = HumanoidRobot
    /\ infoText = NoText
    /\ gaitEngine = NoEngine
    /\ call = NoCall
    /\ entered = TRUE
    /\ frames = 0
    /\ transitions = 0
    /\ eqDelta = 0
    /\ gaitCall = NoGaitCall
    /\ memo = NoGaitCall
    /\ lastOp = "init"
    /\ poseCall = NoPoseCall

UnchangedByGait ==
    UNCHANGED <<animationTime, currentAnimation, robot, infoText, call, entered,
                frames, transitions, eqDelta, poseCall>>

\* new LowerLegEngine(cycleTime)
Construct ==
    \E cycleTime \in CycleTimes :
        /\ gaitEngine = NoEngine
        /\ gaitEngine' = LowerLegEngine(cycleTime)
        /\ lastOp' = "construct"
        /\ UNCHANGED <<gaitCall, memo>>
        /\ UnchangedByGait

\* gaitEngine.getPhase(t, offset), offset 0 or cycleTime / 2
GetPhaseCall ==
    \E t \in GaitTimes, offset \in {0, HalfCycle(gaitEngine)} :
        /\ gaitEngine # NoEngine
        /\ gaitCall' = [ op |-> "getPhase", engine |-> gaitEngine, t |-> t,
                         offset |-> offset,
                         phase |-> getPhase(gaitEngine, t, offset),
                         phaseR |-> 0, sample |-> NoSample, again |-> FALSE,
                         curve |-> << >>, point |-> Pt(0, 0) ]
        /\ gaitEngine' = EngineAfterCall(gaitEngine, t)
        /\ lastOp' = "getPhase"
        /\ UNCHANGED memo
        /\ UnchangedByGait

\* gaitEngine.getLowerLegAngles(t)
GetLowerLegAnglesCall ==
    \E t \in GaitTimes :
        /\ gaitEngine # NoEngine
        /\ gaitCall' = [ op |-> "getLowerLegAngles", engine |-> gaitEngine, t |-> t,
                         offset |-> 0,
                         phase |-> getPhase(gaitEngine, t, 0),
                         phaseR |-> RightPhase(gaitEngine, t),
                         sample |-> getLowerLegAngles(gaitEngine, t),
                         again |-> memo.op # "none",
                         curve |-> << >>, point |-> Pt(0, 0) ]
        /\ memo' = IF memo.op = "none" THEN gaitCall' ELSE memo
        /\ gaitEngine' = EngineAfterCall(gaitEngine, t)
        /\ lastOp' = "getLowerLegAngles"
        /\ UnchangedByGait

NextGait == Construct \/ GetPhaseCall \/ GetLowerLegAnglesCall

SpecGait == InitGait /\ [][NextGait]_vars

---------------------------------------------------------------------------
(* SpecCurve: evalCurve called on the engine of the program with a curve   *)
(* of four control points, one of the engine's own or another, at phases    *)
(* from 0 to 1.  The curve in hand is the curve field of gaitCall.          *)

MaxCurveStep == 1

CurveStep == Fx \div 2

\* the y values of the control points: -0.5, 0, 0.5
CurveValues == { k * CurveStep : k \in (0 - MaxCurveStep) .. MaxCurveStep }

\* the curves of four control points over CurveValues (with the x values of
\* the knee curve, reversed), and the four curves of the engine
TestCurves ==
    { << Pt(9000, y1), Pt(6000, y2), Pt(-4000, y3), Pt(-9000, y4) >> :
          y1 \in CurveValues, y2 \in CurveValues, y3 \in CurveValues, y4 \in CurveValues }
    \cup { LowerLegEngine(Fx).kneeCurve, LowerLegEngine(Fx).ankleCurve,
           LowerLegEngine(Fx).hipCurve, LowerLegEngine(Fx).heightCurve }

\* phases 0, 0.25, 0.5, 0.75, 1
TestPhases == { k * (Fx \div 4) : k \in 0 .. 4 }

InitCurve ==
    /\ animationTime = 0
    /\ currentAnimation = 0
    /\ robot = HumanoidRobot
    /\ infoText = NoText
    /\ gaitEngine = LowerLegEngine(1 * Fx)
    /\ call = NoCall
    /\ entered = TRUE
    /\ frames = 0
    /\ transitions = 0
    /\ eqDelta = 0
    /\ \E curve \in TestCurves : gaitCall = [NoGaitCall EXCEPT !.curve = curve]
    /\ memo = NoGaitCall
    /\ lastOp = "init"
    /\ poseCall = NoPoseCall

\* gaitEngine.evalCurve(curve, phase)
EvalCurveCall ==
    \E phase \in TestPhases :
        /\ gaitCall' = [ NoGaitCall EXCEPT !.op = "evalCurve",
                                           !.engine = gaitEngine,
                                           !.curve = gaitCall.curve,
                                           !.phase = phase,
                                           !.point = evalCurve(gaitCall.curve, phase) ]
        /\ gaitEngine' = EngineAfterCall(gaitEngine, phase)
        /\ lastOp' = "evalCurve"
        /\ UNCHANGED memo
        /\ UnchangedByGait

NextCurve == EvalCurveCall

SpecCurve == InitCurve /\ [][NextCurve]_vars

---------------------------------------------------------------------------
(* SpecClamp: the robot's clamping called on a robot whose rotations are    *)
(* arbitrary: every joint starts with the same (x, y, z), each drawn from   *)
(* angles on both sides of every limit.  One operation is called on that    *)
(* pose and then called again with the same arguments: constrainJoint on    *)
(* one (joint, axis, limit), applyConstraints, or one of the five animation *)
(* functions, each of which ends with applyConstraints.                     *)

MaxAngleSteps == 5

AngleStep == 7 * 10 ^ 3

TestAngles == { k * AngleStep : k \in (0 - MaxAngleSteps) .. MaxAngleSteps }

\* further x rotations: -1, 1.3 and 5 rad
ScenarioAngles == {-10000, 13000, 50000}

\* the joints constrainJoint is called on
ClampJoints == {"leftKnee"}

\* the animation times the animation functions are called with: 0.75 s and 2.5 s
ClampTimes == {7500, 25000}

InitClamp ==
    /\ animationTime = 0
    /\ currentAnimation = 0
    /\ \E vx \in TestAngles \cup ScenarioAngles, vy \in TestAngles, vz \in TestAngles :
           robot = [HumanoidRobot EXCEPT !.rot = [j \in Joints |-> Vec(vx, vy, vz)]]
    /\ infoText = NoText
    /\ gaitEngine = LowerLegEngine(1 * Fx)
    /\ call = NoCall
    /\ entered = TRUE
    /\ frames = 0
    /\ transitions = 0
    /\ eqDelta = 0
    /\ gaitCall = NoGaitCall
    /\ memo = NoGaitCall
    /\ lastOp = "init"
    /\ poseCall = NoPoseCall

UnchangedByClamp ==
    UNCHANGED <<animationTime, currentAnimation, infoText, gaitEngine, call,
                entered, frames, transitions, eqDelta, gaitCall, memo>>

\* robot.constrainJoint(joint, axis, robot.jointConstraints[limit])
ConstrainJointCall ==
    \E joint \in ClampJoints, axis \in {"x", "y", "z"}, limit \in DOMAIN jointConstraints :
        /\ \/ poseCall.op = "none"
           \/ /\ poseCall.op = "constrainJoint"
              /\ poseCall.joint = joint
              /\ poseCall.axis = axis
              /\ poseCall.limit = limit
        /\ robot' = constrainJoint(robot, joint, axis, jointConstraints[limit])
        /\ poseCall' = [ NoPoseCall EXCEPT !.op = "constrainJoint",
                                           !.joint = joint,
                                           !.axis = axis,
                                           !.limit = limit,
                                           !.before = robot,
                                           !.again = (poseCall.op = "constrainJoint") ]
        /\ lastOp' = "constrainJoint"
        /\ UnchangedByClamp

\* robot.applyConstraints()
ApplyConstraintsCall ==
    /\ poseCall.op \in {"none", "applyConstraints"}
    /\ robot' = applyConstraints(robot)
    /\ poseCall' = [ NoPoseCall EXCEPT !.op = "applyConstraints",
                                       !.before = robot,
                                       !.again = (poseCall.op = "applyConstraints") ]
    /\ lastOp' = "applyConstraints"
    /\ UnchangedByClamp

\* idleAnimation(robot, t), walkAnimation(robot, t), runAnimation(robot, t),
\* waveAnimation(robot, t) or rotateBodyAnimation(robot, t)
AnimationCall ==
    \E mode \in 0 .. 4, t \in ClampTimes :
        /\ poseCall.op = "none"
        /\ robot' = Dispatch(mode, robot, gaitEngine, t)
        /\ poseCall' = [ NoPoseCall EXCEPT !.op = "animation",
                                           !.mode = mode,
                                           !.t = t,
                                           !.before = robot ]
        /\ lastOp' = "animation"
        /\ UnchangedByClamp

NextClamp == ConstrainJointCall \/ ApplyConstraintsCall \/ AnimationCall

SpecClamp == InitClamp /\ [][NextClamp]_vars

---------------------------------------------------------------------------
(* Properties *)

\* the cyclic order Idle -> Walk -> Run -> Head Turn -> Jump -> Idle
CycleSucc(c) == CASE c = 0 -> 1 [] c = 1 -> 2 [] c = 2 -> 3 [] c = 3 -> 4 [] c = 4 -> 0

\* every rotation of every joint is zero, and so are the root's position and rotation
NeutralPose(r) ==
    /\ \A j \in Joints : r.rot[j] = Zero
    /\ r.rootPos = Zero
    /\ r.rootRot = Zero

\* the joint axes that have an entry in the jointConstraints table
LimitedAxes ==
    { <<ConstraintCalls[i][1], ConstraintCalls[i][2], ConstraintCalls[i][3]>> :
          i \in 1 .. Len(ConstraintCalls) }
    \cup { <<"leftUpperArm", "y", "shoulderY">>, <<"rightUpperArm", "y", "shoulderY">> }

AxisValue(r, joint, axis) ==
    CASE axis = "x" -> r.rot[joint].x
      [] axis = "y" -> r.rot[joint].y
      [] axis = "z" -> r.rot[joint].z

InLimit(r, a) ==
    /\ AxisValue(r, a[1], a[2]) >= jointConstraints[a[3]].min
    /\ AxisValue(r, a[1], a[2]) <= jointConstraints[a[3]].max

\* C1: across any sequence of updateAnimation calls from a fresh selector the
\* mode is always one of the five, and a call either leaves it or moves it to
\* its successor in the cycle Idle -> Walk -> Run -> Head Turn -> Jump -> Idle,
\* whatever the delta: no mode is skipped, none is revisited backwards, and no
\* mode outside the cycle (from which no call would leave) is reached.
C1_SingleCyclicSteps ==
    /\ [](currentAnimation \in 0 .. 4)
    /\ [][ \/ currentAnimation' = currentAnimation
           \/ currentAnimation' = CycleSucc(currentAnimation) ]_vars

\* C1 witness: a 4.5 s delta in Jump has moved the mode one step, back to Idle
C1_Witness ==
    /\ call.made
    /\ call.delta > animationDuration
    /\ call.mode0 = 4
    /\ currentAnimation = 0

\* C2: an updateAnimation call advances the mode exactly when accumulator +
\* delta >= 4; when it does, the call ends with the accumulator at 0, the mode
\* at the successor and the pose neutral.
C2_AdvanceAtThreshold ==
    call.made =>
        /\ (currentAnimation # call.mode0) <=> (call.t0 + call.delta >= 4 * Fx)
        /\ (currentAnimation # call.mode0) =>
               /\ animationTime = 0
               /\ currentAnimation = CycleSucc(call.mode0)
               /\ NeutralPose(robot)

\* C2 witness: a call in Run overshot the 4 s (it ran the Run pose at t > 4)
\* and ended in Head Turn with the accumulator at 0
C2_Witness ==
    /\ call.made
    /\ call.mode0 = 2
    /\ call.t0 > 0
    /\ call.t0 + call.delta > 4 * Fx
    /\ currentAnimation = 3
    /\ animationTime = 0

\* C3: at the end of every updateAnimation call every joint axis that has a
\* limit holds a rotation inside the limit.
C3_PoseWithinLimits ==
    \A a \in LimitedAxes : InLimit(robot, a)

\* C3 witness: a Run frame has ended with a bent knee and a swung hip
C3_Witness ==
    /\ call.made
    /\ currentAnimation = 2
    /\ call.mode0 = 2
    /\ robot.rot.leftKnee.x > 0
    /\ robot.rot.leftUpperLeg.x < 0
    /\ robot.rot.rightAnkle.x > 0

\* C4 (the claim as stated): after one applyConstraints call every joint axis
\* that has an entry in jointConstraints is inside its limit, whatever the
\* rotations were before.
C4_ClampsEveryLimitedAxis ==
    lastOp = "applyConstraints" => \A a \in LimitedAxes : InLimit(robot, a)

\* C5 (the claim as stated): the first updateAnimation call after a state was
\* entered invokes resetPose before the state's animation is applied.
C5_ResetOnFirstCall ==
    (call.made /\ call.first) => call.resetAtStart

\* C6: equal positive deltas: while their sum is below 4 no transition has
\* happened; the update on which the sum first reaches 4 makes exactly one,
\* Idle -> Walk, with resetPose; so 16 updates of 0.25 s end in Walk with the
\* accumulator at 0 after one transition.
C6_OneTransitionAtFourSeconds ==
    /\ frames * eqDelta < 4 * Fx =>
           /\ transitions = 0
           /\ currentAnimation = 0
           /\ animationTime = frames * eqDelta
    /\ (frames >= 1 /\ (frames - 1) * eqDelta < 4 * Fx /\ frames * eqDelta >= 4 * Fx) =>
           /\ transitions = 1
           /\ currentAnimation = 1
           /\ animationTime = 0
           /\ call.resetAtEnd
           /\ NeutralPose(robot)
    /\ (eqDelta = 2500 /\ frames = 16) =>
           /\ transitions = 1
           /\ currentAnimation = 1
           /\ animationTime = 0
           /\ call.resetAtEnd

\* C6 witness: the sixteenth update of 0.25 s has just made the transition
C6_Witness ==
    /\ eqDelta = 2500
    /\ frames = 16
    /\ transitions = 1
    /\ call.t0 = 37500
    /\ currentAnimation = 1

\* C7 (the claim as stated): on an engine with a positive cycle time, getPhase
\* returns a phase in [0, 1) for every t, negative t included.
C7_PhaseInUnitInterval ==
    (gaitCall.op = "getPhase" /\ gaitCall.engine.cycleTime > 0) =>
        (gaitCall.phase >= 0 /\ gaitCall.phase < Fx)

\* C8: for t >= 0 the right leg's phase in getLowerLegAngles(t) is
\* getPhase(t + cycleTime/2, 0), and the left leg of the sample half a cycle
\* later is the right leg of the sample at t.
C8_HalfCycleAntiphase ==
    (gaitCall.op = "getLowerLegAngles" /\ gaitCall.engine.cycleTime > 0 /\ gaitCall.t >= 0) =>
        LET e == gaitCall.engine
        IN  /\ gaitCall.phaseR = getPhase(e, gaitCall.t + HalfCycle(e), 0)
            /\ getLowerLegAngles(e, gaitCall.t + HalfCycle(e)).left_leg
                   = gaitCall.sample.right_leg

\* C8 witness: cycleTime 1.0, sample(0): the right leg is at phase 0.5, knee bent
C8_Witness ==
    /\ gaitCall.op = "getLowerLegAngles"
    /\ gaitCall.engine.cycleTime = Fx
    /\ gaitCall.t = 0
    /\ gaitCall.phase = 0
    /\ gaitCall.phaseR = 5000
    /\ gaitCall.sample.right_leg.knee > 0
    /\ gaitCall.sample.left_leg.knee = 0

C10_NoNonPositiveCycleTime ==
    /\ gaitEngine # NoEngine => gaitEngine.cycleTime > 0
    /\ gaitCall.op = "getPhase" => gaitCall.engine.cycleTime > 0

\* C11: evalCurve returns the first control point's y at phase 0 and the last
\* control point's y at phase 1, for every curve of four control points.
C11_CurveEndpoints ==
    gaitCall.op = "evalCurve" =>
        /\ gaitCall.phase = 0  => gaitCall.point.y = gaitCall.curve[1].y
        /\ gaitCall.phase = Fx => gaitCall.point.y = gaitCall.curve[4].y

\* C11 witness: a curve whose ends differ from each other and from the inner
\* control points, evaluated at phase 1
C11_Witness ==
    /\ gaitCall.op = "evalCurve"
    /\ gaitCall.phase = Fx
    /\ gaitCall.curve[1].y = 0 - CurveStep
    /\ gaitCall.curve[2].y = 0
    /\ gaitCall.curve[3].y = 0
    /\ gaitCall.curve[4].y = CurveStep
    /\ gaitCall.point.y = CurveStep

\* the y of a curve at a phase, from the y components of its control points alone
CurveY(curve, phase) ==
    cubicBezier(curve[1].y, curve[2].y, curve[3].y, curve[4].y, phase)

\* a curve with the x component of every control point replaced by 0
WithoutX(curve) == [i \in 1 .. 4 |-> Pt(0, curve[i].y)]

\* C12: for t >= 0 every hip, knee and ankle angle of getLowerLegAngles(t) is
\* the y of that joint's curve at the leg's phase (left getPhase(t, 0), right
\* getPhase(t, cycleTime/2)) times the joint's amplitude times pi/180, and the
\* sample is the same when every control point's x is replaced; with cycleTime
\* 1.0, getLowerLegAngles(0) has left phase 0, right phase 0.5 and left knee
\* evalCurve(kneeCurve, 0).y * kneeAmp * pi/180.
C12_AnglesFromCurveY ==
    (gaitCall.op = "getLowerLegAngles" /\ gaitCall.engine.cycleTime > 0 /\ gaitCall.t >= 0) =>
        LET e  == gaitCall.engine
            pL == getPhase(e, gaitCall.t, 0)
            pR == getPhase(e, gaitCall.t, TruncDiv(e.cycleTime, 2))
            flat == [e EXCEPT !.hipCurve = WithoutX(@), !.kneeCurve = WithoutX(@),
                              !.ankleCurve = WithoutX(@), !.heightCurve = WithoutX(@)]
        IN  /\ gaitCall.sample.left_leg.hip    = ToRadians(CurveY(e.hipCurve, pL), 50)
            /\ gaitCall.sample.left_leg.knee   = ToRadians(CurveY(e.kneeCurve, pL), 55)
            /\ gaitCall.sample.left_leg.ankle  = ToRadians(CurveY(e.ankleCurve, pL), 25)
            /\ gaitCall.sample.right_leg.hip   = ToRadians(CurveY(e.hipCurve, pR), 50)
            /\ gaitCall.sample.right_leg.knee  = ToRadians(CurveY(e.kneeCurve, pR), 55)
            /\ gaitCall.sample.right_leg.ankle = ToRadians(CurveY(e.ankleCurve, pR), 25)
            /\ getLowerLegAngles(flat, gaitCall.t) = gaitCall.sample
            /\ (e.cycleTime = Fx /\ gaitCall.t = 0) =>
                   /\ gaitCall.phase = 0
                   /\ gaitCall.phaseR = Fx \div 2
                   /\ gaitCall.sample.left_leg.knee
                          = ToRadians(evalCurve(e.kneeCurve, 0).y, e.kneeAmp)

\* C12 witness: cycleTime 2.0, sample(0.25): left phase 0.125, right phase
\* 0.625, the left hip behind, the right hip ahead, knees and ankles bent
C12_Witness ==
    /\ gaitCall.op = "getLowerLegAngles"
    /\ gaitCall.engine.cycleTime = 2 * Fx
    /\ gaitCall.t = GaitStep
    /\ gaitCall.phase = 1250
    /\ gaitCall.phaseR = 6250
    /\ gaitCall.sample.left_leg.hip < 0
    /\ gaitCall.sample.right_leg.hip > 0
    /\ gaitCall.sample.left_leg.knee > 0
    /\ gaitCall.sample.right_leg.ankle > 0

\* the three axes of a rotation other than the one named
OtherAxes(axis) == {"x", "y", "z"} \ {axis}

\* C13: constrainJoint sets the chosen axis to max(min, min(max, current)):
\* inside the limit unchanged, below it min, above it max; the other two axes
\* of the joint, and the rest of the robot, are left as they were; with the
\* limit {0, 2.5} the inputs -1, 0, 1.3, 5 become 0, 0, 1.3, 2.5.
C13_ClampChosenAxis ==
    poseCall.op = "constrainJoint" =>
        LET L   == jointConstraints[poseCall.limit]
            j   == poseCall.joint
            cur == AxisValue(poseCall.before, j, poseCall.axis)
            new == AxisValue(robot, j, poseCall.axis)
        IN  /\ new = Max(L.min, Min(L.max, cur))
            /\ (L.min <= cur /\ cur <= L.max) => new = cur
            /\ cur < L.min => new = L.min
            /\ cur > L.max => new = L.max
            /\ \A a \in OtherAxes(poseCall.axis) :
                   AxisValue(robot, j, a) = AxisValue(poseCall.before, j, a)
            /\ \A k \in Joints \ {j} : robot.rot[k] = poseCall.before.rot[k]
            /\ (L.min = 0 /\ L.max = 25000) =>
                   /\ cur = -10000 => new = 0
                   /\ cur = 0      => new = 0
                   /\ cur = 13000  => new = 13000
                   /\ cur = 50000  => new = 25000

\* C13 witness: constrainJoint(leftKnee, 'x', {0, 2.5}) on a knee at x = 5 has
\* set x to 2.5 and left y and z, both beyond every limit, where they were
C13_Witness ==
    /\ poseCall.op = "constrainJoint"
    /\ ~poseCall.again
    /\ poseCall.limit = "kneeX"
    /\ poseCall.axis = "x"
    /\ poseCall.before.rot.leftKnee.x = 50000
    /\ robot.rot.leftKnee = Vec(25000, 0 - 35000, 35000)

\* C14: clamping is idempotent: a constrainJoint call repeated with the same
\* joint, axis and limit changes nothing, for every angle and every limit of
\* the table, and an applyConstraints pass right after another changes no
\* rotation.
C14_ClampIdempotent ==
    /\ (poseCall.op = "constrainJoint" /\ poseCall.again) => robot = poseCall.before
    /\ (poseCall.op = "applyConstraints" /\ poseCall.again) => robot = poseCall.before
    /\ poseCall.op = "constrainJoint" =>
           constrainJoint(robot, poseCall.joint, poseCall.axis,
                          jointConstraints[poseCall.limit]) = robot
    /\ poseCall.op = "applyConstraints" => applyConstraints(robot) = robot

\* C14 witness: the second constrainJoint(leftKnee, 'y', shoulderY) call on a
\* knee whose y the first call had brought from beyond the limit down to 1.0
C14_Witness ==
    /\ poseCall.op = "constrainJoint"
    /\ poseCall.again
    /\ poseCall.limit = "shoulderY"
    /\ poseCall.axis = "y"
    /\ poseCall.before.rot.leftKnee.y = 10000
    /\ robot.rot.leftKnee.y = 10000
    /\ robot.rot.leftKnee.x = 0 - 35000

\* C15: after applyConstraints, whatever the rotations were before, the x
\* rotation of both knees and both lower arms is >= 0; and so it is for both
\* knees after each of the five animation functions updateAnimation calls,
\* which all end with applyConstraints.
C15_KneesAndElbowsOneWay ==
    /\ poseCall.op = "applyConstraints" =>
           /\ robot.rot.leftKnee.x >= 0
           /\ robot.rot.rightKnee.x >= 0
           /\ robot.rot.leftLowerArm.x >= 0
           /\ robot.rot.rightLowerArm.x >= 0
    /\ poseCall.op = "animation" =>
           /\ robot.rot.leftKnee.x >= 0
           /\ robot.rot.rightKnee.x >= 0

\* C15 witness: applyConstraints on knees and elbows bent backwards by 2.1 rad
\* has set them to 0
C15_Witness ==
    /\ poseCall.op = "applyConstraints"
    /\ ~poseCall.again
    /\ poseCall.before.rot.leftKnee.x = 0 - 21000
    /\ poseCall.before.rot.rightLowerArm.x = 0 - 21000
    /\ robot.rot.leftKnee.x = 0
    /\ robot.rot.rightKnee.x = 0
    /\ robot.rot.leftLowerArm.x = 0
    /\ robot.rot.rightLowerArm.x = 0

\* C16: at the end of an updateAnimation call that ran the Jump and made no
\* transition, with s = sin(phase), phase = 2t mod 2pi: the root's y is
\* max(0, s) * 0.3 and never negative, both knees are max(0, s) * 0.5, both
\* ankles are minus half the knee bend; no lift exceeds 0.3 and no knee bend
\* 0.5, and both are reached when s = 1; when s <= 0 all of them are zero.
C16_JumpLiftAndBend ==
    (call.made /\ call.mode0 = 4 /\ ~call.resetAtEnd) =>
        LET t     == call.t0 + call.delta
            phase == (2 * t) % (2 * Pi)
            s     == Sin(phase)
            knee  == robot.rot.leftKnee.x
        IN  /\ robot.rootPos.y = (Max(0, s) * 3) \div 10
            /\ robot.rootPos.y >= 0
            /\ knee = Max(0, s) \div 2
            /\ robot.rot.rightKnee.x = knee
            /\ robot.rot.leftAnkle.x = 0 - knee \div 2
            /\ robot.rot.rightAnkle.x = 0 - knee \div 2
            /\ robot.rootPos.y <= 3000
            /\ knee <= 5000
            /\ s = Fx => (robot.rootPos.y = 3000 /\ knee = 5000)
            /\ s <= 0 => /\ robot.rootPos.y = 0
                         /\ knee = 0
                         /\ robot.rot.rightKnee.x = 0
                         /\ robot.rot.leftAnkle.x = 0
                         /\ robot.rot.rightAnkle.x = 0

\* C16 witness: the first Jump frame of a run with delta pi/4: phase pi/2, the
\* lift 0.3, the knees bent by 0.5 and the ankles by -0.25
C16_Witness ==
    /\ call.made
    /\ call.mode0 = 4
    /\ currentAnimation = 4
    /\ eqDelta = Pi \div 4
    /\ 2 * animationTime = Pi \div 2
    /\ robot.rootPos.y = 3000
    /\ robot.rot.leftKnee.x = 5000
    /\ robot.rot.rightKnee.x = 5000
    /\ robot.rot.leftAnkle.x = 0 - 2500
    /\ robot.rot.rightAnkle.x = 0 - 2500

\* C17 (the claim as stated): an updateAnimation call with delta 0 leaves the
\* mode, the accumulator and the whole pose as they were before the call, in
\* every reachable state, and so does a second such call after a first.
C17_ZeroDeltaNoOp ==
    [][ /\ (lastOp' = "updateAnimation" /\ call'.delta = 0) =>
               /\ currentAnimation' = currentAnimation
               /\ animationTime' = animationTime
               /\ robot' = robot
        /\ (call.made /\ call.delta = 0 /\ lastOp' = "updateAnimation" /\ call'.delta = 0) =>
               /\ currentAnimation' = currentAnimation
               /\ animationTime' = animationTime
               /\ robot' = robot ]_vars

\* C18 (the claim as stated): for each of the engine's hip, knee, ankle and
\* body-height curves the value at phase 1 is the value at phase 0, and the
\* sample taken just before the phase wraps (t = cycleTime - 0.0001) is
\* within 0.01 of the sample taken at the wrap (t = cycleTime) in every left
\* leg angle and in the body height.
C18_ContinuousAcrossWrap ==
    (gaitEngine # NoEngine /\ gaitEngine.cycleTime > 0) =>
        LET e      == gaitEngine
            before == getLowerLegAngles(e, e.cycleTime - 1)
            after  == getLowerLegAngles(e, e.cycleTime)
        IN  /\ evalCurve(e.hipCurve, Fx).y    = evalCurve(e.hipCurve, 0).y
            /\ evalCurve(e.kneeCurve, Fx).y   = evalCurve(e.kneeCurve, 0).y
            /\ evalCurve(e.ankleCurve, Fx).y  = evalCurve(e.ankleCurve, 0).y
            /\ evalCurve(e.heightCurve, Fx).y = evalCurve(e.heightCurve, 0).y
            /\ Abs(after.left_leg.hip - before.left_leg.hip) <= 100
            /\ Abs(after.left_leg.knee - before.left_leg.knee) <= 100
            /\ Abs(after.left_leg.ankle - before.left_leg.ankle) <= 100
            /\ Abs(after.bodyHeight - before.bodyHeight) <= 100

\* C19 (the claim as stated): after the mode has changed, the first
\* updateAnimation call in the new mode, whatever its positive delta, ends
\* with the info panel showing the new mode's name (stated for the modes
\* after Idle, which are only entered by a change, and for a call that does
\* not itself change the mode again).
C19_PanelShowsNewMode ==
    (call.made /\ call.first /\ call.mode0 # 0 /\ call.delta > 0 /\ ~call.resetAtEnd) =>
        infoText = animationNames[call.mode0 + 1]

\* the hip, leg, knee, ankle and foot nodes of both legs
LegJoints ==
    { "leftHip", "leftUpperLeg", "leftKnee", "leftLowerLeg", "leftAnkle", "leftFoot",
      "rightHip", "rightUpperLeg", "rightKnee", "rightLowerLeg", "rightAnkle", "rightFoot" }

\* C20: at the end of every updateAnimation call made in Head Turn every leg
\* rotation and the root's position and rotation are zero; at the end of every
\* call made in Idle the root's x and z are zero, also in the Idle that
\* follows Jump.
C20_IdleHeadTurnNoLegNoRoot ==
    /\ (call.made /\ call.mode0 = 3) =>
           /\ \A j \in LegJoints : robot.rot[j] = Zero
           /\ robot.rootPos = Zero
           /\ robot.rootRot = Zero
    /\ (call.made /\ call.mode0 = 0) =>
           /\ robot.rootPos.x = 0
           /\ robot.rootPos.z = 0

\* C20 witness: a Head Turn frame, the neck turned, in a run whose panel was
\* last written in Run, the mode before, which moves the legs and the root
C20_Witness ==
    /\ call.made
    /\ call.mode0 = 3
    /\ currentAnimation = 3
    /\ infoText = "Run"
    /\ robot.rot.neck.y # 0
    /\ robot.rot.neck.x # 0

\* C21: when updateAnimation is called forever with deltas of at least a
\* positive constant, each of the five modes is entered infinitely often.
C21_EveryModeForever ==
    \A m \in 0 .. 4 : []<>(entered /\ currentAnimation = m)

\* C21 witness: Idle has been entered again, from Jump, by a frame of 1 s
C21_Witness ==
    /\ call.made
    /\ call.delta = Fx
    /\ call.mode0 = 4
    /\ call.resetAtEnd
    /\ entered
    /\ currentAnimation = 0

\* C22: at the end of a Walk frame that makes no transition, with t the time
\* elapsed in Walk and g = getLowerLegAngles(0.6 t): each hip and knee x is
\* the clamped hip and knee angle of g for that leg, each ankle x the clamped
\* negation of that leg's ankle angle, the root's y is g.bodyHeight and the
\* root's z is 0.3 t.
C22_WalkFollowsGaitSample ==
    (call.made /\ call.mode0 = 1 /\ ~call.resetAtEnd) =>
        LET t == call.t0 + call.delta
            g == getLowerLegAngles(gaitEngine, (6 * t) \div 10)
        IN  /\ robot.rot.leftUpperLeg.x  = Clamp(g.left_leg.hip, jointConstraints.hipX)
            /\ robot.rot.rightUpperLeg.x = Clamp(g.right_leg.hip, jointConstraints.hipX)
            /\ robot.rot.leftKnee.x      = Clamp(g.left_leg.knee, jointConstraints.kneeX)
            /\ robot.rot.rightKnee.x     = Clamp(g.right_leg.knee, jointConstraints.kneeX)
            /\ robot.rot.leftAnkle.x     = Clamp(0 - g.left_leg.ankle, jointConstraints.ankleX)
            /\ robot.rot.rightAnkle.x    = Clamp(0 - g.right_leg.ankle, jointConstraints.ankleX)
            /\ robot.rootPos.y = g.bodyHeight
            /\ robot.rootPos.z = (3 * t) \div 10

\* C22 witness: the Walk frame at t = 1.25 s (gait time 0.75): both knees
\* bent, both ankles flexed the other way, the root lowered and 0.375 ahead
C22_Witness ==
    /\ call.made
    /\ call.mode0 = 1
    /\ currentAnimation = 1
    /\ animationTime = 12500
    /\ robot.rot.leftKnee.x > 0
    /\ robot.rot.rightKnee.x > 0
    /\ robot.rot.leftAnkle.x < 0
    /\ robot.rot.rightAnkle.x < 0
    /\ robot.rot.leftUpperLeg.x > 0
    /\ robot.rot.rightUpperLeg.x < 0
    /\ robot.rootPos.y < 0
    /\ robot.rootPos.z = 3750

\* C23: after any sequence of updateAnimation calls the mode index is one of
\* 0..4: no call has run case 5 of the switch (fingerCurlAnimation, which is
\* not defined), animationNames[currentAnimation] is a name, and the panel
\* shows nothing but a name.
C23_ModeIndexInRange ==
    /\ currentAnimation \in 0 .. 4
    /\ call.made => (call.mode0 \in 0 .. 4 /\ ~call.threw)
    /\ currentAnimation + 1 \in DOMAIN animationNames
    /\ infoText \in {animationNames[i] : i \in DOMAIN animationNames} \cup {NoText}

\* C23 witness: the index has wrapped from 4 to 0 and the panel, written
\* during Jump, shows the fifth name
C23_Witness ==
    /\ call.made
    /\ call.mode0 = 4
    /\ call.resetAtEnd
    /\ currentAnimation = 0
    /\ infoText = animationNames[5]

\* C24: with deltas that are not negative, every updateAnimation call ends
\* with 0 <= animationTime < 4, also after a delta larger than 4.
C24_AccumulatorBelowThreshold ==
    /\ animationTime >= 0
    /\ animationTime < 4 * Fx

\* C24 witness: a call that found the accumulator at 3.75 s and added 4.5 s
\* has ended with the accumulator at 0
C24_Witness ==
    /\ call.made
    /\ call.t0 = 37500
    /\ call.delta = 45000
    /\ animationTime = 0

\* C25 (the claim as stated): after a mode transition every pose component an
\* animation function writes is at its neutral value of construction time,
\* the torso's y written by Idle included.
C25_TransitionRestoresAll ==
    (call.made /\ call.resetAtEnd) =>
        /\ NeutralPose(robot)
        /\ robot.torsoY = TorsoY0

C27_ClampChangesNothing ==
    (call.made /\ ~call.threw) =>
        LET t       == call.t0 + call.delta
            written == DispatchWrites(call.mode0, HumanoidRobot, gaitEngine, t)
        IN  /\ \A a \in LimitedAxes : InLimit(written, a)
            /\ applyConstraints(written) = written
            /\ ~call.resetAtEnd =>
                   /\ robot.rot = written.rot
                   /\ robot.rootPos = written.rootPos
                   /\ robot.rootRot = written.rootRot

\* C27 witness: a Run frame at t = 0.25 s: the left hip at 0.759 rad, near its
\* limit of 1.0, the right knee bent, as runAnimation wrote them
C27_Witness ==
    /\ call.made
    /\ call.mode0 = 2
    /\ currentAnimation = 2
    /\ animationTime = 2500
    /\ robot.rot.leftUpperLeg.x > 7500
    /\ robot.rot.leftUpperLeg.x < 10000
    /\ robot.rot.rightKnee.x > 10000

=============================================================================
